---- MODULE Spec2Model ----
(***************************************************************************)
(* Marching tetrahedra (src/main.rs): the case tables, the per-cell corner *)
(* flipping, the two edge refiners and the marcher, as a state machine     *)
(* that processes one grid cell per step.                                  *)
(*                                                                         *)
(* Coordinates.  A Vec3 of the program is a triple of f64.  The model      *)
(* keeps a coordinate as an integer count of 1/Unit world units, with      *)
(* Unit = 2^RefineIterations.  All inputs drawn below are multiples of     *)
(* Unit/2 whose edge extents are 0, Unit or 2 Unit per axis, so every      *)
(* halving of the 8-step bisection is exact, both here and in f64.         *)
(* Indices.  The program's arrays are 0-based; the tables below are TLA+   *)
(* tuples, read at [i + 1].  The values stored in faces and edges are the  *)
(* program's 0-based indices into verts.                                   *)
(***************************************************************************)
EXTENDS Integers, Sequences, FiniteSets, TLC

VARIABLES domain, meshes, pc, data, refiner, cell, mesh, refine_calls,
          sampled, probe, out

vars == <<domain, meshes, pc, data, refiner, cell, mesh, refine_calls,
          sampled, probe, out>>

(* ----------------------------- bounds ---------------------------------- *)

MaxN == 2

MaxCells == 8

RefineIterations == 8

Unit == 2 ^ RefineIterations

Half == Unit \div 2

(* ----------------------------- vectors --------------------------------- *)

Vec(x, y, z) == [x |-> x, y |-> y, z |-> z]

IVec3Add(a, b) == Vec(a.x + b.x, a.y + b.y, a.z + b.z)

Abs(n) == IF n < 0 THEN -n ELSE n

\* Arrays of 3, 4 and 8 elements built from an index function.
Array3(F(_)) == <<F(1), F(2), F(3)>>

Array4(F(_)) == <<F(1), F(2), F(3), F(4)>>

Array8(F(_)) == <<F(1), F(2), F(3), F(4), F(5), F(6), F(7), F(8)>>

(* ----------------------------- tables ---------------------------------- *)

\* the table with the second and third edge of row 0001 exchanged
TETRADEDRA_VERTMASK_TO_EDGES_swapped ==
  << <<-1, -1, -1, -1, -1, -1>>,
     << 0,  2,  1, -1, -1, -1>>,
     << 0,  5,  3, -1, -1, -1>>,
     << 1,  2,  3,  3,  2,  5>>,
     << 1,  3,  4, -1, -1, -1>>,
     << 4,  2,  3,  3,  2,  0>>,
     << 1,  0,  4,  4,  0,  5>>,
     << 2,  5,  4, -1, -1, -1>> >>

\* the table with the last edge of row 0011 mistyped (4 for 5)
TETRADEDRA_VERTMASK_TO_EDGES_typo ==
  << <<-1, -1, -1, -1, -1, -1>>,
     << 0,  1,  2, -1, -1, -1>>,
     << 0,  5,  3, -1, -1, -1>>,
     << 1,  2,  3,  3,  2,  4>>,
     << 1,  3,  4, -1, -1, -1>>,
     << 4,  2,  3,  3,  2,  0>>,
     << 1,  0,  4,  4,  0,  5>>,
     << 2,  5,  4, -1, -1, -1>> >>

TETRADEDRA_VERTMASK_TO_EDGES ==
  << <<-1, -1, -1, -1, -1, -1>>,
     << 0,  1,  2, -1, -1, -1>>,
     << 0,  5,  3, -1, -1, -1>>,
     << 1,  2,  3,  3,  2,  5>>,
     << 1,  3,  4, -1, -1, -1>>,
     << 4,  2,  3,  3,  2,  0>>,
     << 1,  0,  4,  4,  0,  5>>,
     << 2,  5,  4, -1, -1, -1>> >>

GRID_TO_VERT_OFFSETS ==
  << Vec(0, 0, 0), Vec(1, 0, 0), Vec(1, 1, 0), Vec(0, 1, 0),
     Vec(0, 0, 1), Vec(1, 0, 1), Vec(1, 1, 1), Vec(0, 1, 1) >>

GRID_TO_TETRAHEDRA_VERTICES ==
  << <<0, 2, 7, 5>>,
     <<1, 0, 5, 2>>,
     <<3, 2, 7, 0>>,
     <<4, 0, 7, 5>>,
     <<6, 2, 5, 7>> >>

TETRAHEDRA_EDGES_TO_VERT_OFFSETS ==
  << <<0, 1>>, <<0, 2>>, <<0, 3>>, <<1, 2>>, <<2, 3>>, <<3, 1>> >>

(* ----------------------------- the field ------------------------------- *)

\* The scalar field handed to the marcher: affine, f(p) = a*x + b*y + c*z,
\* with the coefficients as the user data.
field_weight(position, d) ==
  d.a * position.x + d.b * position.y + d.c * position.z

(* ----------------------------- refiners -------------------------------- *)

refine_function_center(v1, v2) ==
  Vec((v1.x + v2.x) \div 2, (v1.y + v2.y) \div 2, (v1.z + v2.z) \div 2)

RECURSIVE bisect(_, _, _, _, _, _)
bisect(pos_left, pos_right, pos_center, d, surface_weight, n) ==
  IF n = 0 THEN pos_center
  ELSE LET c == refine_function_center(pos_left, pos_right)
       IN  IF field_weight(c, d) < surface_weight
           THEN bisect(c, pos_right, c, d, surface_weight, n - 1)
           ELSE bisect(pos_left, c, c, d, surface_weight, n - 1)

\* a refiner that never orders its endpoints by field value
refine_swap_never(w_left, w_right) == FALSE

refine_swap(w_left, w_right) == w_left > w_right

\* a bisection that stops one halving early
refine_function_linear_short(v1, v2, d, surface_weight) ==
  LET swapped   == refine_swap(field_weight(v1, d), field_weight(v2, d))
      pos_left  == IF swapped THEN v2 ELSE v1
      pos_right == IF swapped THEN v1 ELSE v2
  IN  bisect(pos_left, pos_right, pos_left, d, surface_weight,
             RefineIterations - 1)

refine_function_linear(v1, v2, d, surface_weight) ==
  LET swapped   == refine_swap(field_weight(v1, d), field_weight(v2, d))
      pos_left  == IF swapped THEN v2 ELSE v1
      pos_right == IF swapped THEN v1 ELSE v2
  IN  bisect(pos_left, pos_right, pos_left, d, surface_weight,
             RefineIterations)

refine_function(kind, v1, v2, d, surface_weight) ==
  IF kind = "center" THEN refine_function_center(v1, v2)
  ELSE refine_function_linear(v1, v2, d, surface_weight)

(* ----------------------------- the domain ------------------------------ *)

vertex_grid_size(dom) == Vec(dom.width + 1, dom.height + 1, dom.depth + 1)

vertex_position(dom, g) ==
  Vec(dom.from.x + (g.x * (dom.to.x - dom.from.x)) \div dom.width,
      dom.from.y + (g.y * (dom.to.y - dom.from.y)) \div dom.height,
      dom.from.z + (g.z * (dom.to.z - dom.from.z)) \div dom.depth)

\* corner flipping that forgets the y axis
get_vert_offsets_no_flip_y(cell_pos) ==
  LET flip_x == (Abs(cell_pos.x) % 2) # 0
      flip_z == (Abs(cell_pos.z) % 2) # 0
      count  == (IF flip_x THEN 1 ELSE 0) + (IF flip_z THEN 1 ELSE 0)
      G      == GRID_TO_VERT_OFFSETS
      flipped(index) ==
        Vec(IF flip_x THEN 1 - G[index].x ELSE G[index].x,
            G[index].y,
            IF flip_z THEN 1 - G[index].z ELSE G[index].z)
  IN  [offsets |-> Array8(flipped), grid_inverse |-> (count % 2) # 0]

get_vert_offsets(cell_pos) ==
  LET flip_x == (Abs(cell_pos.x) % 2) # 0
      flip_y == (Abs(cell_pos.y) % 2) # 0
      flip_z == (Abs(cell_pos.z) % 2) # 0
      count  == (IF flip_x THEN 1 ELSE 0) + (IF flip_y THEN 1 ELSE 0)
                + (IF flip_z THEN 1 ELSE 0)
      G      == GRID_TO_VERT_OFFSETS
      flipped(index) ==
        Vec(IF flip_x THEN 1 - G[index].x ELSE G[index].x,
            IF flip_y THEN 1 - G[index].y ELSE G[index].y,
            IF flip_z THEN 1 - G[index].z ELSE G[index].z)
  IN  [offsets |-> Array8(flipped), grid_inverse |-> (count % 2) # 0]

(* ----------------------------- the marcher ----------------------------- *)

is_inside(weight, surface_weight) == weight > surface_weight

\* mask |= 1 << index for every inside corner of the tetrahedron
tet_mask(vert_is_inside, tetrahedron_indices) ==
  (IF vert_is_inside[tetrahedron_indices[1] + 1] THEN 1 ELSE 0)
  + (IF vert_is_inside[tetrahedron_indices[2] + 1] THEN 2 ELSE 0)
  + (IF vert_is_inside[tetrahedron_indices[3] + 1] THEN 4 ELSE 0)
  + (IF vert_is_inside[tetrahedron_indices[4] + 1] THEN 8 ELSE 0)

\* a compression that drops the high bit instead of complementing
compressed_mask_drop_bit(mask) == IF mask > 7 THEN mask - 8 ELSE mask

compressed_mask(mask) == IF mask > 7 THEN 15 - mask ELSE mask

\* a winding decision that ignores the cell parity
inversed_mask_no_parity(mask, grid_inverse) == mask > 7

inversed_mask(mask, grid_inverse) == (mask > 7) # grid_inverse

\* a face whose indices are shifted by one
face_record_shifted(base, inversed) ==
  [v1 |-> base + 1,
   v2 |-> base + (IF inversed THEN 3 ELSE 2),
   v3 |-> base + (IF inversed THEN 2 ELSE 3)]

face_record(base, inversed) ==
  [v1 |-> base,
   v2 |-> base + (IF inversed THEN 2 ELSE 1),
   v3 |-> base + (IF inversed THEN 1 ELSE 2)]

\* an edge loop that is not closed
face_edges_open(base) ==
  << [v1 |-> base,     v2 |-> base + 1],
     [v1 |-> base + 1, v2 |-> base + 2] >>

face_edges(base) ==
  << [v1 |-> base,     v2 |-> base + 1],
     [v1 |-> base + 1, v2 |-> base + 2],
     [v1 |-> base + 2, v2 |-> base] >>

\* One pass of the face_index loop body: a face, three edges, three refined
\* vertices.  acc carries what the current cell has appended so far (and the
\* log of the refiner's arguments); start is mesh.verts.len() when the cell
\* was entered, so start + Len(acc.verts) is mesh.verts.len() now.
push_face(acc, e, inversed, tet_positions, kind, d, surface_weight) ==
  LET base  == acc.start + Len(acc.verts)
      p1(k) == tet_positions[TETRAHEDRA_EDGES_TO_VERT_OFFSETS[e[k] + 1][1] + 1]
      p2(k) == tet_positions[TETRAHEDRA_EDGES_TO_VERT_OFFSETS[e[k] + 1][2] + 1]
      edge_pos(k) == refine_function(kind, p1(k), p2(k), d, surface_weight)
      call(k)     == <<p1(k), p2(k)>>
  IN  [start |-> acc.start,
       verts |-> acc.verts \o Array3(edge_pos),
       faces |-> Append(acc.faces, face_record(base, inversed)),
       edges |-> acc.edges \o face_edges(base),
       calls |-> acc.calls \o Array3(call)]

march_tetrahedron(acc, tetrahedron_indices, vert_positions, vert_is_inside, grid_inverse, kind, d, surface_weight) ==
  LET mask     == tet_mask(vert_is_inside, tetrahedron_indices)
      row      == TETRADEDRA_VERTMASK_TO_EDGES[compressed_mask(mask) + 1]
      inversed == inversed_mask(mask, grid_inverse)
      corner(i) == vert_positions[tetrahedron_indices[i] + 1]
      tet_positions == Array4(corner)
      slot(s)  == <<row[3 * s + 1], row[3 * s + 2], row[3 * s + 3]>>
  IN  IF slot(0)[1] = -1 THEN acc
      ELSE LET a1 == push_face(acc, slot(0), inversed, tet_positions,
                               kind, d, surface_weight)
           IN  IF slot(1)[1] = -1 THEN a1
               ELSE push_face(a1, slot(1), inversed, tet_positions,
                              kind, d, surface_weight)

cell_vert_positions(dom, cell_pos) ==
  LET offs == get_vert_offsets(cell_pos).offsets
      position(i) == vertex_position(dom, IVec3Add(cell_pos, offs[i]))
  IN  Array8(position)

RECURSIVE march_tets(_, _, _, _, _, _, _, _)
march_tets(acc, t, vert_positions, vert_is_inside, grid_inverse, kind, d, surface_weight) ==
  IF t > Len(GRID_TO_TETRAHEDRA_VERTICES) THEN acc
  ELSE march_tets(
         march_tetrahedron(acc, GRID_TO_TETRAHEDRA_VERTICES[t],
                           vert_positions, vert_is_inside, grid_inverse,
                           kind, d, surface_weight),
         t + 1, vert_positions, vert_is_inside, grid_inverse, kind, d,
         surface_weight)

march_cell(acc, dom, cell_pos, kind, d) ==
  LET vert_positions == cell_vert_positions(dom, cell_pos)
      inside(i) == is_inside(field_weight(vert_positions[i], d),
                             dom.surface_weight)
      vert_is_inside == Array8(inside)
  IN  march_tets(acc, 1, vert_positions, vert_is_inside,
                 get_vert_offsets(cell_pos).grid_inverse, kind, d,
                 dom.surface_weight)

\* for x in 0..max.x { for y in 0..max.y { for z in 0..max.z
next_cell(c, max) ==
  IF c.z + 1 < max.z THEN Vec(c.x, c.y, c.z + 1)
  ELSE IF c.y + 1 < max.y THEN Vec(c.x, c.y + 1, 0)
  ELSE Vec(c.x + 1, 0, 0)

(* ----------------------------- inputs ---------------------------------- *)

Sizes == 1..MaxN

\* Domains centred on the origin; a cell is one world unit long on y and z
\* and sx world units long on x.
MakeDomain(nx, ny, nz, sx, iso) ==
  [from |-> Vec(-(nx * sx * Half), -(ny * Half), -(nz * Half)),
   to   |-> Vec(nx * sx * Half, ny * Half, nz * Half),
   surface_weight |-> iso,
   width |-> nx, height |-> ny, depth |-> nz]

IsoValues == {-(3 * Half), 0, 3 * Half}

CellLengths == {1, 2}

Domains ==
  {MakeDomain(s[1], s[2], s[3], sx, iso) :
     s \in {t \in Sizes \X Sizes \X Sizes : t[1] * t[2] * t[3] <= MaxCells},
     sx \in CellLengths, iso \in IsoValues}

Coefs == {-1, 0, 1}

Fields == [a : Coefs, b : Coefs, c : Coefs]

Refiners == {"center", "linear"}

EmptyMesh == [verts |-> <<>>, faces |-> <<>>, edges |-> <<>>]

NoData == [a |-> 0, b |-> 0, c |-> 0]

(* ----------------------------- actions --------------------------------- *)

Init ==
  /\ domain \in Domains
  /\ meshes = <<>>
  /\ pc = "idle"
  /\ data = NoData
  /\ refiner = "center"
  /\ cell = Vec(0, 0, 0)
  /\ mesh = EmptyMesh
  /\ refine_calls = <<>>
  /\ sampled = {}
  /\ probe = <<>>
  /\ out = <<>>

\* march_tetrahedras is entered: let mut mesh = Mesh::default()
MarchBegin ==
  /\ pc = "idle"
  /\ \E d \in Fields, k \in Refiners :
        /\ data' = d
        /\ refiner' = k
  /\ mesh' = EmptyMesh
  /\ cell' = Vec(0, 0, 0)
  /\ pc' = "marching"
  /\ UNCHANGED <<domain, meshes, refine_calls, sampled, probe, out>>

\* one pass of the body of the innermost (z) loop; refine_calls keeps the
\* argument pairs of the refiner calls this pass made, in call order
MarchCell ==
  /\ pc = "marching"
  /\ cell.x < vertex_grid_size(domain).x
  /\ LET acc == march_cell([start |-> Len(mesh.verts), verts |-> <<>>,
                            faces |-> <<>>, edges |-> <<>>, calls |-> <<>>],
                           domain, cell, refiner, data)
     IN  /\ mesh' = [verts |-> mesh.verts \o acc.verts,
                     faces |-> mesh.faces \o acc.faces,
                     edges |-> mesh.edges \o acc.edges]
         /\ refine_calls' = acc.calls
  /\ sampled' = sampled \cup
        {IVec3Add(cell, get_vert_offsets(cell).offsets[i]) : i \in 1..8}
  /\ cell' = next_cell(cell, vertex_grid_size(domain))
  /\ UNCHANGED <<domain, meshes, pc, data, refiner, probe, out>>

\* the loops are exhausted: self.meshes.push(mesh)
MarchEnd ==
  /\ pc = "marching"
  /\ cell.x >= vertex_grid_size(domain).x
  /\ meshes' = Append(meshes, mesh)
  /\ pc' = "done"
  /\ UNCHANGED <<domain, data, refiner, cell, mesh, refine_calls, sampled,
                 probe, out>>

Next == MarchBegin \/ MarchCell \/ MarchEnd

Spec == Init /\ [][Next]_vars

(* ------------------- get_vert_offsets on neighbouring cells ------------ *)

MaxCoord == 2

Coords == (-MaxCoord)..MaxCoord

Axes == {"x", "y", "z"}

AxisUnit(axis) ==
  Vec(IF axis = "x" THEN 1 ELSE 0, IF axis = "y" THEN 1 ELSE 0,
      IF axis = "z" THEN 1 ELSE 0)

Neighbour(cell_pos, axis, dir) ==
  IVec3Add(cell_pos, Vec(dir * AxisUnit(axis).x, dir * AxisUnit(axis).y,
                         dir * AxisUnit(axis).z))

InitOffsets ==
  /\ domain = MakeDomain(1, 1, 1, 1, 0)
  /\ meshes = <<>>
  /\ pc = "offsets"
  /\ data = NoData
  /\ refiner = "center"
  /\ cell = Vec(0, 0, 0)
  /\ mesh = EmptyMesh
  /\ refine_calls = <<>>
  /\ sampled = {}
  /\ probe \in [cell : [x : Coords, y : Coords, z : Coords],
                axis : Axes, dir : {-1, 1}]
  /\ out = <<>>

\* get_vert_offsets is applied to a cell and to one of its six neighbours
ProbeOffsets ==
  /\ pc = "offsets"
  /\ out = <<>>
  /\ out' = <<get_vert_offsets(probe.cell),
              get_vert_offsets(Neighbour(probe.cell, probe.axis, probe.dir))>>
  /\ UNCHANGED <<domain, meshes, pc, data, refiner, cell, mesh, refine_calls,
                 sampled, probe>>

NextOffsets == ProbeOffsets

SpecOffsets == InitOffsets /\ [][NextOffsets]_vars

(* ------------------- refine_function_linear on both argument orders ---- *)

MaxPoint == 1

Points ==
  {Vec(x * Unit, y * Unit, z * Unit) : x \in 0..MaxPoint, y \in 0..MaxPoint,
                                       z \in 0..MaxPoint}

InitRefine ==
  /\ domain = MakeDomain(1, 1, 1, 1, 0)
  /\ meshes = <<>>
  /\ pc = "refine"
  /\ data = NoData
  /\ refiner = "linear"
  /\ cell = Vec(0, 0, 0)
  /\ mesh = EmptyMesh
  /\ refine_calls = <<>>
  /\ sampled = {}
  /\ probe \in [v1 : Points, v2 : Points, d : Fields, iso : IsoValues]
  /\ out = <<>>

\* the bisection refiner is called as (v1, v2) and as (v2, v1)
ProbeRefine ==
  /\ pc = "refine"
  /\ out = <<>>
  /\ out' = <<refine_function_linear(probe.v1, probe.v2, probe.d, probe.iso),
              refine_function_linear(probe.v2, probe.v1, probe.d, probe.iso)>>
  /\ UNCHANGED <<domain, meshes, pc, data, refiner, cell, mesh, refine_calls,
                 sampled, probe>>

NextRefine == ProbeRefine

SpecRefine == InitRefine /\ [][NextRefine]_vars

(* ----------------------------- properties ------------------------------ *)

\* the mesh under construction, and every mesh already pushed
AllMeshes == {mesh} \cup {meshes[i] : i \in 1..Len(meshes)}

Inside(p) == is_inside(field_weight(p, data), domain.surface_weight)

\* C1: the mesh built by march_tetrahedras has three vertices and three
\* edges per face: |verts| = 3 * |faces| and |edges| = 3 * |faces|.
C1_VertsAndEdgesAreThreePerFace ==
  \A m \in AllMeshes :
     /\ Len(m.verts) = 3 * Len(m.faces)
     /\ Len(m.edges) = 3 * Len(m.faces)

C1_Witness ==
  /\ pc = "done"
  /\ Len(meshes) = 1
  /\ Len(meshes[1].faces) > 1
  /\ domain.width = 2 /\ domain.height = 1

\* C2: the face at position i (0-based) of the appended mesh has v1 = 3i and
\* {v2, v3} = {3i + 1, 3i + 2}, so all three indices are inside [0, |verts|).
C2_FaceIndexesOwnVertices ==
  pc = "done" =>
    \A n \in 1..Len(meshes) :
       \A i \in 0..(Len(meshes[n].faces) - 1) :
          LET f == meshes[n].faces[i + 1]
          IN  /\ f.v1 = 3 * i
              /\ {f.v2, f.v3} = {3 * i + 1, 3 * i + 2}
              /\ \A v \in {f.v1, f.v2, f.v3} :
                    0 <= v /\ v < Len(meshes[n].verts)

C2_Witness ==
  /\ pc = "done"
  /\ Len(meshes) = 1
  /\ \E i, j \in 1..Len(meshes[1].faces) :
        /\ meshes[1].faces[i].v2 = meshes[1].faces[i].v1 + 1
        /\ meshes[1].faces[j].v2 = meshes[1].faces[j].v1 + 2

ConstantField == data.a = 0 /\ data.b = 0 /\ data.c = 0

\* C3: a constant field f = c with c # iso (here c = 0, iso above or below)
\* yields a mesh with no faces, no edges and no vertices.
C3_ConstantFieldGivesEmptyMesh ==
  (pc # "idle" /\ ConstantField /\ domain.surface_weight # 0) =>
     /\ mesh = EmptyMesh
     /\ refine_calls = <<>>
     /\ pc = "done" => meshes = <<EmptyMesh>>

\* every corner inside (mask 15), on a 2x2x2 grid
C3_Witness ==
  /\ pc = "done"
  /\ ConstantField
  /\ domain.surface_weight < 0
  /\ domain.width = 2 /\ domain.height = 2 /\ domain.depth = 2
  /\ meshes = <<EmptyMesh>>

(* C4 *)

\* the plane shared by probe.cell and its neighbour, as a coordinate on
\* probe.axis
SharedPlane ==
  IF probe.dir = 1 THEN probe.cell[probe.axis] + 1 ELSE probe.cell[probe.axis]

\* absolute grid corners of a cell that lie on the shared plane
FaceCorners(cell_pos, offsets) ==
  {g \in {IVec3Add(cell_pos, offsets[i]) : i \in 1..8} :
     g[probe.axis] = SharedPlane}

\* absolute end points of edge e (0-based) of tetrahedron t (1-based)
TetEdge(cell_pos, offsets, t, e) ==
  LET tetrahedron_indices == GRID_TO_TETRAHEDRA_VERTICES[t]
      ends == TETRAHEDRA_EDGES_TO_VERT_OFFSETS[e + 1]
  IN  {IVec3Add(cell_pos, offsets[tetrahedron_indices[ends[1] + 1] + 1]),
       IVec3Add(cell_pos, offsets[tetrahedron_indices[ends[2] + 1] + 1])}

\* the tetrahedron edges of a cell that lie in the shared plane
FaceTetEdges(cell_pos, offsets) ==
  {ed \in {TetEdge(cell_pos, offsets, t, e) :
             t \in 1..Len(GRID_TO_TETRAHEDRA_VERTICES), e \in 0..5} :
     \A g \in ed : g[probe.axis] = SharedPlane}

ProbeNeighbour == Neighbour(probe.cell, probe.axis, probe.dir)

\* C4: two cells that differ by 1 along one axis have the same four grid
\* corners on their shared face and the same tetrahedron edges in it (the
\* four sides and the diagonal), negative coordinates included.
C4_NeighboursAgreeOnSharedFace ==
  out # <<>> =>
    /\ FaceCorners(probe.cell, out[1].offsets)
         = FaceCorners(ProbeNeighbour, out[2].offsets)
    /\ Cardinality(FaceCorners(probe.cell, out[1].offsets)) = 4
    /\ FaceTetEdges(probe.cell, out[1].offsets)
         = FaceTetEdges(ProbeNeighbour, out[2].offsets)

C4_Witness ==
  /\ out # <<>>
  /\ probe.cell = Vec(-1, -2, 0)
  /\ probe.axis = "y" /\ probe.dir = -1
  /\ Cardinality(FaceTetEdges(probe.cell, out[1].offsets)) = 5
  /\ \E ed \in FaceTetEdges(ProbeNeighbour, out[2].offsets) :
        \E g, h \in ed : g.x # h.x /\ g.z # h.z

(* C5 *)

Sub(p, q) == Vec(p.x - q.x, p.y - q.y, p.z - q.z)

Cross(p, q) ==
  Vec(p.y * q.z - p.z * q.y, p.z * q.x - p.x * q.z, p.x * q.y - p.y * q.x)

Dot(p, q) == p.x * q.x + p.y * q.y + p.z * q.z

\* 0-based positions of the faces the last MarchCell step appended
FirstNewFace == (Len(mesh.verts) - Len(refine_calls)) \div 3

NewFaces == FirstNewFace..(Len(mesh.faces) - 1)

\* the refiner calls made for face i, i in NewFaces
FaceCalls(i) == {refine_calls[3 * (i - FirstNewFace) + k] : k \in 1..3}

\* the corners of the tetrahedron face i was cut from
FaceTetCorners(i) == UNION {{c[1], c[2]} : c \in FaceCalls(i)}

FaceNormal(i) ==
  LET f == mesh.faces[i + 1]
      a == mesh.verts[f.v1 + 1]
  IN  Cross(Sub(mesh.verts[f.v2 + 1], a), Sub(mesh.verts[f.v3 + 1], a))

\* complementary masks share a table row and differ in winding; so do the
\* two cell parities
WindingFacts ==
  \A m \in 1..14 :
     /\ compressed_mask(m) = compressed_mask(15 - m)
     /\ inversed_mask(m, FALSE) # inversed_mask(15 - m, FALSE)
     /\ inversed_mask(m, TRUE) # inversed_mask(m, FALSE)

\* C5: for every emitted face, in the stored order (v1, v2, v3), the normal
\* (v2 - v1) x (v3 - v1) points from each inside corner of its tetrahedron
\* to each corner that is not inside; complementary masks and cells of
\* opposite parity get opposite index order.
C5_NormalsPointOutOfTheInside ==
  /\ \A i \in NewFaces :
        /\ Cardinality(FaceTetCorners(i)) = 4
        /\ \A p, q \in FaceTetCorners(i) :
              (Inside(p) /\ ~Inside(q)) => Dot(FaceNormal(i), Sub(q, p)) > 0
  /\ WindingFacts

\* bisection refiner, a tetrahedron cut into two faces with swapped winding
C5_Witness ==
  /\ pc = "marching"
  /\ refiner = "linear"
  /\ \E i \in NewFaces :
        /\ i + 1 \in NewFaces
        /\ FaceTetCorners(i) = FaceTetCorners(i + 1)
        /\ mesh.faces[i + 1].v2 = mesh.faces[i + 1].v1 + 2
        /\ Cardinality({p \in FaceTetCorners(i) : Inside(p)}) = 2

(* C6 *)

MirrorZ(v) == Vec(v.x, v.y, -v.z)

Occurrences(verts, v) == Cardinality({j \in 1..Len(verts) : verts[j] = v})

\* C6: for a domain and a field that are symmetric under z -> -z, every
\* vertex (x, y, z) of the mesh occurs as often as (x, y, -z).
C6_VerticesMirrorInZ ==
  (pc = "done" /\ domain.from.z = -domain.to.z /\ data.c = 0) =>
     \A j \in 1..Len(meshes[1].verts) :
        Occurrences(meshes[1].verts, meshes[1].verts[j])
          = Occurrences(meshes[1].verts, MirrorZ(meshes[1].verts[j]))

(* C7 *)

\* C7 as stated: the bisection refiner returns the same point for (v1, v2)
\* and (v2, v1), whatever the field values at the end points.
C7_RefinerSymmetricAlways ==
  out # <<>> => out[1] = out[2]

\* C7: the bisection refiner returns the same point for (v1, v2) and
\* (v2, v1) whenever the field values at v1 and v2 differ.
C7_RefinerSymmetricOnDistinctWeights ==
  (out # <<>> /\ field_weight(probe.v1, probe.d)
                   # field_weight(probe.v2, probe.d))
    => out[1] = out[2]

\* the end points arrive in descending field order and the crossing is
\* strictly between them
C7_Witness ==
  /\ out # <<>>
  /\ field_weight(probe.v1, probe.d) > probe.iso
  /\ probe.iso > field_weight(probe.v2, probe.d)
  /\ out[1] = out[2]
  /\ out[1] \notin {probe.v1, probe.v2}

(* C8 *)

\* the field is +-1 times the coordinate on this axis and does not depend
\* on the other two
LinearAlong(axis) ==
  /\ data[IF axis = "x" THEN "a" ELSE IF axis = "y" THEN "b" ELSE "c"]
       \in {-1, 1}
  /\ Cardinality({k \in {"a", "b", "c"} : data[k] # 0}) = 1

AxisCoef(axis) ==
  data[IF axis = "x" THEN "a" ELSE IF axis = "y" THEN "b" ELSE "c"]

AxisCells(axis) ==
  IF axis = "x" THEN domain.width
  ELSE IF axis = "y" THEN domain.height ELSE domain.depth

FlatPlaneScenario ==
  /\ domain = MakeDomain(2, 2, 2, 1, 0)
  /\ data = [a |-> 0, b |-> 0, c |-> 1]
  /\ refiner = "linear"

\* C8: with the bisection refiner and a field linear along one axis that
\* crosses iso at the plane axis = c, every vertex is within 1/256 of one
\* grid step of c along that axis; the flat-plane scenario (2x2x2 cells on
\* (-1,-1,-1)..(1,1,1), iso 0, f = z) has a face and |z| <= 1/256 throughout.
C8_BisectionWithinOne256thOfPlane ==
  /\ \A axis \in Axes :
        (pc # "idle" /\ refiner = "linear" /\ LinearAlong(axis)) =>
           \A j \in 1..Len(mesh.verts) :
              256 * Abs(mesh.verts[j][axis]
                          - AxisCoef(axis) * domain.surface_weight)
                <= (domain.to[axis] - domain.from[axis]) \div AxisCells(axis)
  /\ (pc = "done" /\ FlatPlaneScenario) =>
        /\ Len(meshes[1].faces) > 0
        /\ \A j \in 1..Len(meshes[1].verts) :
              256 * Abs(meshes[1].verts[j].z) <= Unit

C8_Witness ==
  /\ pc = "done"
  /\ FlatPlaneScenario
  /\ Len(meshes[1].faces) > 0
  /\ \E j \in 1..Len(meshes[1].verts) : meshes[1].verts[j].z # 0

(* C9 *)

InBounds(p) ==
  /\ domain.from.x <= p.x /\ p.x <= domain.to.x
  /\ domain.from.y <= p.y /\ p.y <= domain.to.y
  /\ domain.from.z <= p.z /\ p.z <= domain.to.z

\* C9: the corners classified by a march are the (nx+1)(ny+1)(nz+1) grid
\* corners (i, j, k) with 0 <= i <= nx, 0 <= j <= ny, 0 <= k <= nz, all of
\* them inside the inclusive bounds [from, to].
C9_SamplesAreTheGridCorners ==
  /\ \A g \in sampled :
        /\ 0 <= g.x /\ g.x <= domain.width
        /\ 0 <= g.y /\ g.y <= domain.height
        /\ 0 <= g.z /\ g.z <= domain.depth
        /\ InBounds(vertex_position(domain, g))
  /\ pc = "done" =>
        Cardinality(sampled)
          = (domain.width + 1) * (domain.height + 1) * (domain.depth + 1)

(* C10 *)

\* a tetrahedron on its own: four distinct corners, classified by the bits
\* of mask
ProbeCorners == <<Vec(0, 0, 0), Vec(2, 0, 0), Vec(0, 2, 0), Vec(0, 0, 2)>>

MaskBit(mask, i) == (mask \div (2 ^ i)) % 2 = 1

MaskInside(mask) ==
  <<MaskBit(mask, 0), MaskBit(mask, 1), MaskBit(mask, 2), MaskBit(mask, 3)>>

MaskResult(mask) ==
  march_tetrahedron([start |-> 0, verts |-> <<>>, faces |-> <<>>,
                     edges |-> <<>>, calls |-> <<>>],
                    <<0, 1, 2, 3>>, ProbeCorners, MaskInside(mask), FALSE,
                    "center", NoData, 0)

CornerBit(mask, p) ==
  \E i \in 0..3 : ProbeCorners[i + 1] = p /\ MaskBit(mask, i)

InsideCount(mask) == Cardinality({i \in 0..3 : MaskBit(mask, i)})

ExpectedFaces(n) == IF n \in {0, 4} THEN 0 ELSE IF n \in {1, 3} THEN 1 ELSE 2

\* for each of the 16 masks: the number of faces, and every listed edge has
\* end points with different bits
MaskFacts ==
  \A mask \in 0..15 :
     LET r == MaskResult(mask)
     IN  /\ Len(r.faces) = ExpectedFaces(InsideCount(mask))
         /\ \A n \in 1..Len(r.calls) :
               CornerBit(mask, r.calls[n][1]) # CornerBit(mask, r.calls[n][2])

\* C10: every refiner call of the march is on an edge with exactly one
\* inside end point; and for each of the 16 masks the tetrahedron gives 0,
\* 1 or 2 faces for 0/4, 1/3 or 2 inside corners, each on straddling edges.
C10_RefinerOnlyOnStraddlingEdges ==
  /\ \A n \in 1..Len(refine_calls) :
        Inside(refine_calls[n][1]) # Inside(refine_calls[n][2])
  /\ MaskFacts

\* a cell in which one tetrahedron gave two faces and another gave one
C10_Witness ==
  /\ pc = "marching"
  /\ \E i, j \in NewFaces :
        /\ i + 1 \in NewFaces
        /\ FaceTetCorners(i) = FaceTetCorners(i + 1)
        /\ Cardinality({p \in FaceTetCorners(i) : Inside(p)}) = 2
        /\ Cardinality({p \in FaceTetCorners(j) : Inside(p)}) = 3

====
